---- MODULE Spec2Model ----
(***************************************************************************)
(* Cats-Eye (src/app.js) : a single-page front end that previews a video   *)
(* link, runs a seeded mock analysis and offers a wallet connection.       *)
(*                                                                         *)
(* Strings are sequences of one-character strings.  JavaScript numbers     *)
(* that exceed 31 bits (the generator state, the seed fold) are kept       *)
(* exactly as sign + two 16-bit limbs, so every product stays below 2^31.  *)
(***************************************************************************)
EXTENDS Integers, Sequences, FiniteSets, TLC

VARIABLES
    \* ---- one call of fakeDetect, statement by statement ----
    url,        \* the argument of the running (or last) fakeDetect call
    pc,         \* "idle" | "count" | "person" | "start" | "duration" | "confidence" | "done"
    seed,       \* the folded seed (signed 32-bit)
    s,          \* the closure variable s of seededRandom
    n,          \* the record count
    out,        \* the array being built / returned
    fields,     \* the locals person, start, duration drawn so far in this iteration
    drawn,      \* how many times rand() was called in this call
    memo,       \* the first completed call, <<[arg, ret, between, again]>>, or <<>>
    \* ---- parseYouTubeId applied to the three URL shapes of one video ----
    link,       \* the input: [id, tail], tail the query parameters after the id
    extracted,  \* what parseYouTubeId returned, per shape; NotYet before the call
    \* ---- the page ----
    videoUrlInput,  \* value of #videoUrl
    status,         \* text of #status
    player,         \* child nodes of #player
    results,        \* child nodes of #analysisResults
    walletInfo,     \* text of #walletInfo
    analyses,       \* analyze handlers suspended in their delay: [slot, url]
    curLoad,        \* the video in the player has not fired its load event yet
    staleLoads,     \* videos removed from the player whose load event is still due
    ethereum,       \* whether window.ethereum is injected
    connecting,     \* eth_requestAccounts requests not yet settled
    listening       \* an accountsChanged listener is registered

detectVars == <<url, pc, seed, s, n, out, fields, drawn, memo>>

linkVars == <<link, extracted>>

pageVars == <<videoUrlInput, status, player, results, walletInfo, analyses,
              curLoad, staleLoads, ethereum, connecting, listening>>

vars == <<url, pc, seed, s, n, out, fields, drawn, memo, link, extracted,
          videoUrlInput, status, player, results, walletInfo, analyses,
          curLoad, staleLoads, ethereum, connecting, listening>>

-----------------------------------------------------------------------------
(* Characters and their UTF-16 code units (String.prototype.charCodeAt).   *)

\* printable ASCII in code order, in runs that start at codes 32, 35, 40, 93, 97
Printable32 == <<" ", "!">>
Printable35 == <<"#", "$", "%", "&">>
Printable40 ==
    <<"(", ")", "*", "+", ",", "-", ".", "/",
      "0", "1", "2", "3", "4", "5", "6", "7", "8", "9",
      ":", ";", "<", "=", ">", "?", "@",
      "A", "B", "C", "D", "E", "F", "G", "H", "I", "J", "K", "L", "M",
      "N", "O", "P", "Q", "R", "S", "T", "U", "V", "W", "X", "Y", "Z", "[">>
Printable93 == <<"]", "^", "_">>
Printable97 ==
    <<"a", "b", "c", "d", "e", "f", "g", "h", "i", "j", "k", "l", "m",
      "n", "o", "p", "q", "r", "s", "t", "u", "v", "w", "x", "y", "z",
      "{", "|", "}", "~">>

IndexOf(seq, c) == CHOOSE k \in 1..Len(seq) : seq[k] = c

InSeq(seq, c) == \E k \in 1..Len(seq) : seq[k] = c

Chars ==
    {Printable32[k] : k \in 1..Len(Printable32)} \cup
    {Printable35[k] : k \in 1..Len(Printable35)} \cup
    {Printable40[k] : k \in 1..Len(Printable40)} \cup
    {Printable93[k] : k \in 1..Len(Printable93)} \cup
    {Printable97[k] : k \in 1..Len(Printable97)}

CodeOfChar(c) ==
    IF InSeq(Printable32, c) THEN 31 + IndexOf(Printable32, c)
    ELSE IF InSeq(Printable35, c) THEN 34 + IndexOf(Printable35, c)
    ELSE IF InSeq(Printable40, c) THEN 39 + IndexOf(Printable40, c)
    ELSE IF InSeq(Printable93, c) THEN 92 + IndexOf(Printable93, c)
    ELSE 96 + IndexOf(Printable97, c)

CodeTable == [c \in Chars |-> CodeOfChar(c)]

\* url.charCodeAt(i) for the printable ASCII characters the model uses
charCodeAt(c) == CodeTable[c]

-----------------------------------------------------------------------------
(* Exact arithmetic on JavaScript numbers of magnitude below 2^32.         *)
(* A number is [neg, hi, lo] = (neg ? -1 : 1) * (hi * 65536 + lo); the     *)
(* value with neg = TRUE and magnitude 0 is the negative zero of JavaScript.*)

Limb == 65536

Num(neg, hi, lo) == [neg |-> neg, hi |-> hi, lo |-> lo]

Zero == Num(FALSE, 0, 0)

IsZero(w) == w.hi = 0 /\ w.lo = 0

IsNegative(w) == w.neg /\ ~IsZero(w)

\* x | 0 on an unsigned 32-bit pattern <<hi, lo>>: reinterpret as signed
ToInt32(hi, lo) ==
    IF hi < 32768 THEN Num(FALSE, hi, lo)
    ELSE LET l2 == (Limb - lo) % Limb
             h2 == (Limb - hi - (IF lo = 0 THEN 0 ELSE 1)) % Limb
         IN  Num(TRUE, h2, l2)

\* the 32-bit two's-complement pattern <<hi, lo>> of a number
ToUint32(w) ==
    IF ~w.neg \/ IsZero(w) THEN <<w.hi, w.lo>>
    ELSE <<(Limb - w.hi - (IF w.lo = 0 THEN 0 ELSE 1)) % Limb,
           (Limb - w.lo) % Limb>>

\* (u * (ah * 65536 + al) + (ch * 65536 + cl)) mod 2^32 on limbs
MulAdd32(u, ah, al, ch, cl) ==
    LET p  == u[2] * al + cl
        lo == p % Limb
        hi == (u[1] * al + u[2] * ah + ch + (p \div Limb)) % Limb
    IN  <<hi, lo>>

\* (u - (ch * 65536 + cl)) mod 2^32 on limbs
Sub32(u, ch, cl) ==
    LET lo == (u[2] - cl) % Limb
        b  == IF u[2] < cl THEN 1 ELSE 0
        hi == (u[1] - ch - b) % Limb
    IN  <<hi, lo>>

\* Math.floor(w / 2^32 * k) for a small positive integer k
FloorScale(w, k) ==
    LET q1 == (w.lo * k) \div Limb
        r1 == (w.lo * k) % Limb
        t  == w.hi * k + q1
        fl == t \div Limb
        exact == r1 = 0 /\ t % Limb = 0
    IN  IF ~w.neg THEN fl
        ELSE IF exact THEN -fl ELSE -(fl + 1)

Max(a, b) == IF a >= b THEN a ELSE b

-----------------------------------------------------------------------------
(* The mock analysis: seededRandom and fakeDetect (src/app.js 163-196).    *)

\* faulty variant: the accumulator wrapped into 0..2^32-1 instead of the
\* signed range
FoldStepUnsigned(sd, c) ==
    LET acc == MulAdd32(ToUint32(sd), 0, 31, 0, charCodeAt(c))
    IN  Num(FALSE, acc[1], acc[2])

\* the fold of fakeDetect: seed = (seed * 31 + url.charCodeAt(i)) | 0
FoldStep(sd, c) ==
    LET acc == MulAdd32(ToUint32(sd), 0, 31, 0, charCodeAt(c))
    IN  ToInt32(acc[1], acc[2])

\* a signed 32-bit integer: what x | 0 yields
IsInt32(w) == w.hi < 32768 \/ (w.neg /\ w.hi = 32768 /\ w.lo = 0)

\* the for loop from index i on; the accumulator is an int32 at every test
\* of the loop condition (testing it here also makes TLC evaluate it before
\* the next iteration instead of nesting the whole chain)
RECURSIVE FoldFrom(_, _, _)
FoldFrom(sd, str, i) ==
    IF i > Len(str) \/ ~IsInt32(sd) THEN sd
    ELSE FoldFrom(FoldStep(sd, str[i]), str, i + 1)

Fold(str) == FoldFrom(Zero, str, 1)

\* faulty variant: the generator state lives outside the call and is not re-seeded
seededRandomShared(sd) == s

\* let s = seed | 0 : the seed is already a signed 32-bit integer
seededRandom(sd) ==
    LET pat == ToUint32(sd) IN ToInt32(pat[1], pat[2])

\* 1664525 = 25 * 65536 + 26125 ; 1013904223 = 15470 * 65536 + 62303
MultHi == 25
MultLo == 26125
IncHi == 15470
IncLo == 62303
\* the largest magnitude m with m * 1664525 < 1013904223
SmallMag == 609

\* s = (s * 1664525 + 1013904223) % 4294967296, where % keeps the sign of
\* the dividend and every intermediate value is below 2^53 (exact)
LcgNeg(w) ==
    IF w.hi = 0 /\ w.lo <= SmallMag
    THEN \* the sum is positive and below 2^32
         LET v == (IncHi * Limb + IncLo) - w.lo * (MultHi * Limb + MultLo)
         IN  Num(FALSE, v \div Limb, v % Limb)
    ELSE \* the sum is negative: the remainder is -(|sum| mod 2^32)
         LET m == Sub32(MulAdd32(<<w.hi, w.lo>>, MultHi, MultLo, 0, 0),
                        IncHi, IncLo)
         IN  Num(TRUE, m[1], m[2])

LcgPos(w) ==
    LET m == MulAdd32(<<w.hi, w.lo>>, MultHi, MultLo, IncHi, IncLo)
    IN  Num(FALSE, m[1], m[2])

Lcg(w) == IF w.neg THEN LcgNeg(w) ELSE LcgPos(w)

people == <<"Alex", "Maya", "Omar", "Lina", "Noor", "Sam", "Zara", "Ibrahim">>

Undefined == "undefined"

\* people[k]: an index outside the array reads undefined
PeopleAt(k) == IF k \in 0..(Len(people) - 1) THEN people[k + 1] ELSE Undefined

\* faulty variant: the count without Math.max(1, ...)
CountOfNoMax(w) == FloorScale(w, 5)

\* const n = Math.max(1, Math.floor(rand() * 5)), r0 = w / 2^32
CountOf(w) == Max(1, FloorScale(w, 5))

PersonOf(w) == PeopleAt(FloorScale(w, Len(people)))

StartOf(w) == FloorScale(w, 90)

DurationOf(w) == 1 + FloorScale(w, 6)

\* Math.floor(60 + r * 40): 60 + r * 40 is exact in a double (39 bits)
ConfidenceOf(w) == 60 + FloorScale(w, 40)

\* one iteration of the for loop, from generator state w: four draws
RecordFrom(w) ==
    LET g1 == Lcg(w)
        g2 == Lcg(g1)
        g3 == Lcg(g2)
        g4 == Lcg(g3)
    IN  [rec |-> [person |-> PersonOf(g1), start |-> StartOf(g2),
                  duration |-> DurationOf(g3), confidence |-> ConfidenceOf(g4)],
         next |-> g4]

RECURSIVE RecordsFrom(_, _)
RecordsFrom(w, k) ==
    IF k = 0 THEN <<>>
    ELSE <<RecordFrom(w).rec>> \o RecordsFrom(RecordFrom(w).next, k - 1)

\* fakeDetect(url) as a whole
fakeDetect(str) ==
    LET first == Lcg(seededRandom(Fold(str)))
    IN  RecordsFrom(first, CountOf(first))

-----------------------------------------------------------------------------
(* The strings the model feeds to the program.                             *)

VideoId ==
    <<"d", "Q", "w", "4", "w", "9", "W", "g", "X", "c", "Q">>

UrlShort ==
    <<"h", "t", "t", "p", "s", ":", "/", "/", "y", "o", "u", "t", "u",
      ".", "b", "e", "/", "d", "Q", "w", "4", "w", "9", "W", "g", "X",
      "c", "Q">>

UrlWatchT ==
    <<"h", "t", "t", "p", "s", ":", "/", "/", "y", "o", "u", "t", "u",
      "b", "e", ".", "c", "o", "m", "/", "w", "a", "t", "c", "h", "?",
      "v", "=", "d", "Q", "w", "4", "w", "9", "W", "g", "X", "c", "Q",
      "&", "t", "=", "5">>

UrlNoId ==
    <<"h", "t", "t", "p", "s", ":", "/", "/", "w", "w", "w", ".", "y",
      "o", "u", "t", "u", "b", "e", ".", "c", "o", "m", "/", "p", "l",
      "a", "y", "l", "i", "s", "t", "?", "l", "i", "s", "t", "=", "P",
      "L", "1">>

UrlMp4 ==
    <<"h", "t", "t", "p", "s", ":", "/", "/", "e", "x", "a", "m", "p",
      "l", "e", ".", "c", "o", "m", "/", "a", ".", "m", "p", "4">>

UrlUpper ==
    <<"h", "t", "t", "p", "s", ":", "/", "/", "Y", "O", "U", "T", "U",
      "B", "E", ".", "c", "o", "m", "/", "w", "a", "t", "c", "h", "?",
      "v", "=", "d", "Q", "w", "4", "w", "9", "W", "g", "X", "c", "Q">>

NotAUrl ==
    <<"n", "o", "t", " ", "a", " ", "u", "r", "l">>

UrlDirect ==
    <<"h", "t", "t", "p", "s", ":", "/", "/", "e", "x", "a", "m", "p",
      "l", "e", ".", "c", "o", "m", "/", "a", ".", "m", "p", "4", "?",
      "f", "r", "o", "m", "=", "y", "o", "u", "t", "u", ".", "b", "e",
      "/", "d", "Q", "w", "4", "w", "9", "W", "g", "X", "c", "Q">>

\* what the user can have in the URL field
FieldValues ==
    {<<>>, <<" ">>, UrlShort, UrlNoId, <<" ">> \o UrlDirect \o <<" ">>, NotAUrl}

\* the data-url attributes of the sample buttons
SampleUrls == {UrlShort, UrlDirect}

-----------------------------------------------------------------------------
(* fakeDetect run statement by statement: each rand() call is one step.    *)

\* bound on the length of the generated input strings
MaxLen == 3

DetectAlphabet == {"a", "z"}

GeneratedStrings == UNION {[1..k -> DetectAlphabet] : k \in 0..MaxLen}

DetectInputs ==
    GeneratedStrings \cup {UrlShort, UrlWatchT, UrlNoId, UrlMp4, UrlUpper, NotAUrl}

\* the fold of each input, evaluated once per string
SeedOf == [str \in DetectInputs |-> Fold(str)]

NotYet == <<"?">>

LinkIdle == link = <<>> /\ extracted = <<>>

DetectInit ==
    /\ LinkIdle
    /\ url = <<>>
    /\ pc = "idle"
    /\ seed = Zero
    /\ s = Zero
    /\ n = 0
    /\ out = <<>>
    /\ fields = <<>>
    /\ drawn = 0
    /\ memo = <<>>

\* lines 172-175: the fold, then const rand = seededRandom(seed)
Call(str) ==
    /\ pc \in {"idle", "done"}
    /\ url' = str
    /\ seed' = SeedOf[str]
    /\ s' = seededRandom(SeedOf[str])
    /\ n' = 0
    /\ out' = <<>>
    /\ fields' = <<>>
    /\ drawn' = 0
    /\ pc' = "count"
    /\ UNCHANGED memo
    /\ UNCHANGED <<linkVars, pageVars>>

\* line 186
DrawCount ==
    /\ pc = "count"
    /\ s' = Lcg(s)
    /\ n' = CountOf(Lcg(s))
    /\ drawn' = drawn + 1
    /\ pc' = "person"
    /\ UNCHANGED <<url, seed, out, fields, memo>>
    /\ UNCHANGED <<linkVars, pageVars>>

\* line 188: the loop test i < n, with i = out.length
LoopTest == Len(out) < n

\* line 189
DrawPerson ==
    /\ pc = "person"
    /\ LoopTest
    /\ s' = Lcg(s)
    /\ fields' = <<PersonOf(Lcg(s))>>
    /\ drawn' = drawn + 1
    /\ pc' = "start"
    /\ UNCHANGED <<url, seed, n, out, memo>>
    /\ UNCHANGED <<linkVars, pageVars>>

\* faulty variant: the generator is built anew from the seed for this draw
DrawStartReseeded ==
    /\ pc = "start"
    /\ s' = Lcg(seededRandom(seed))
    /\ fields' = Append(fields, StartOf(Lcg(seededRandom(seed))))
    /\ drawn' = drawn + 1
    /\ pc' = "duration"
    /\ UNCHANGED <<url, seed, n, out, memo>>
    /\ UNCHANGED <<linkVars, pageVars>>

\* line 190
DrawStart ==
    /\ pc = "start"
    /\ s' = Lcg(s)
    /\ fields' = Append(fields, StartOf(Lcg(s)))
    /\ drawn' = drawn + 1
    /\ pc' = "duration"
    /\ UNCHANGED <<url, seed, n, out, memo>>
    /\ UNCHANGED <<linkVars, pageVars>>

\* line 191
DrawDuration ==
    /\ pc = "duration"
    /\ s' = Lcg(s)
    /\ fields' = Append(fields, DurationOf(Lcg(s)))
    /\ drawn' = drawn + 1
    /\ pc' = "confidence"
    /\ UNCHANGED <<url, seed, n, out, memo>>
    /\ UNCHANGED <<linkVars, pageVars>>

\* lines 192-193
DrawConfidence ==
    /\ pc = "confidence"
    /\ s' = Lcg(s)
    /\ out' = Append(out, [person |-> fields[1], start |-> fields[2],
                           duration |-> fields[3],
                           confidence |-> ConfidenceOf(Lcg(s))])
    /\ fields' = <<>>
    /\ drawn' = drawn + 1
    /\ pc' = "person"
    /\ UNCHANGED <<url, seed, n, memo>>
    /\ UNCHANGED <<linkVars, pageVars>>

\* line 195: return out
Return ==
    /\ pc = "person"
    /\ ~LoopTest
    /\ pc' = "done"
    /\ memo' = IF memo = <<>>
               THEN <<[arg |-> url, ret |-> out, between |-> FALSE, again |-> FALSE]>>
               ELSE IF url = memo[1].arg
               THEN <<[memo[1] EXCEPT !.again = memo[1].between]>>
               ELSE <<[memo[1] EXCEPT !.between = TRUE]>>
    /\ UNCHANGED <<url, seed, s, n, out, fields, drawn>>
    /\ UNCHANGED <<linkVars, pageVars>>

DetectNext ==
    \/ \E str \in DetectInputs : Call(str)
    \/ DrawCount
    \/ DrawPerson
    \/ DrawStart
    \/ DrawDuration
    \/ DrawConfidence
    \/ Return


-----------------------------------------------------------------------------
(* URL classification: isYouTube and parseYouTubeId (src/app.js 75-94).    *)

Lower == Printable97
Upper == SubSeq(Printable40, 26, 51)
Digits == SubSeq(Printable40, 9, 18)

IsLower(c) == \E k \in 1..26 : Lower[k] = c
IsUpper(c) == InSeq(Upper, c)
IsDigit(c) == InSeq(Digits, c)
IsAlpha(c) == IsLower(c) \/ IsUpper(c)

ToLowerChar(c) == IF IsUpper(c) THEN Lower[IndexOf(Upper, c)] ELSE c

ToLowerCase(str) == [k \in 1..Len(str) |-> ToLowerChar(str[k])]

\* str has the literal lit at position p (1-based)
HasAt(str, p, lit) ==
    /\ p >= 1
    /\ p + Len(lit) - 1 <= Len(str)
    /\ \A k \in 1..Len(lit) : str[p + k - 1] = lit[k]

Contains(str, lit) == \E p \in 1..Len(str) : HasAt(str, p, lit)

\* the least element of a non-empty set of integers
Least(S) == CHOOSE x \in S : \A y \in S : x <= y

\* the greatest element of a non-empty set of integers
Greatest(S) == CHOOSE x \in S : \A y \in S : x >= y

\* String.prototype.trim on the white space the model uses (the space)
RECURSIVE TrimLeft(_)
TrimLeft(str) ==
    IF str # <<>> /\ Head(str) = " " THEN TrimLeft(Tail(str)) ELSE str

RECURSIVE TrimRight(_)
TrimRight(str) ==
    IF str # <<>> /\ str[Len(str)] = " "
    THEN TrimRight(SubSeq(str, 1, Len(str) - 1))
    ELSE str

\* faulty variant: the field value used untrimmed
trimNothing(str) == str


trim(str) == TrimRight(TrimLeft(str))

(* new URL(url) without a base, as far as isYouTube depends on it: whether *)
(* parsing fails (a TypeError) and, if not, the hostname.                  *)

Failure == [ok |-> FALSE, hostname |-> <<>>]

Parsed(host) == [ok |-> TRUE, hostname |-> host]

IsSchemeChar(c) == IsAlpha(c) \/ IsDigit(c) \/ c \in {"+", "-", "."}

\* the position of the colon ending a valid scheme, or 0
SchemeEnd(str) ==
    LET colons == {p \in 1..Len(str) : str[p] = ":"}
    IN  IF colons = {} THEN 0
        ELSE LET p == Least(colons)
             IN  IF p > 1 /\ IsAlpha(str[1])
                          /\ \A k \in 2..(p - 1) : IsSchemeChar(str[k])
                 THEN p ELSE 0

SpecialSchemes == {<<"h", "t", "t", "p">>, <<"h", "t", "t", "p", "s">>, <<"f", "t", "p">>, <<"w", "s">>, <<"w", "s", "s">>}

\* code points that make host parsing fail
ForbiddenHostChars == {" ", "#", "%", "/", ":", "<", ">", "?", "@", "[", "]", "^", "|"}

\* the first position at or after p holding one of the characters, or Len + 1
FirstOf(str, p, chars) ==
    LET hits == {k \in p..Len(str) : str[k] \in chars}
    IN  IF hits = {} THEN Len(str) + 1 ELSE Least(hits)

\* the first position at or after p not holding a slash or backslash
SkipSlashes(str, p) ==
    LET rest == {k \in p..Len(str) : str[k] # "/"}
    IN  IF rest = {} THEN Len(str) + 1 ELSE Least(rest)

\* host and port of an authority (after any userinfo)
ParseHostPort(auth) ==
    LET c == FirstOf(auth, 1, {":"})
        host == SubSeq(auth, 1, c - 1)
        port == SubSeq(auth, c + 1, Len(auth))
    IN  IF host = <<>> THEN Failure
        ELSE IF \E k \in 1..Len(host) : host[k] \in ForbiddenHostChars THEN Failure
        ELSE IF \E k \in 1..Len(port) : ~IsDigit(port[k]) THEN Failure
        ELSE Parsed(ToLowerCase(host))

ParseAuthority(str, p) ==
    LET e == FirstOf(str, p, {"/", "?", "#"})
        auth == SubSeq(str, p, e - 1)
        ats == {k \in 1..Len(auth) : auth[k] = "@"}
    IN  IF ats = {} THEN ParseHostPort(auth)
        ELSE ParseHostPort(SubSeq(auth, Greatest(ats) + 1, Len(auth)))

ParseUrl(str) ==
    LET c == SchemeEnd(str)
    IN  IF c = 0 THEN Failure
        ELSE IF ToLowerCase(SubSeq(str, 1, c - 1)) \in SpecialSchemes
             THEN ParseAuthority(str, SkipSlashes(str, c + 1))
        ELSE IF HasAt(str, c + 1, <<"/", "/">>)
             THEN ParseAuthority(str, c + 3)
        ELSE Parsed(<<>>)

YoutubeCom == <<"y", "o", "u", "t", "u", "b", "e", ".", "c", "o", "m">>
YoutuBe == <<"y", "o", "u", "t", "u", ".", "b", "e">>

\* faulty variant: the pattern anchored to the whole hostname
isYouTubeExactHost(str) ==
    ParseUrl(str).ok /\ ParseUrl(str).hostname \in {YoutubeCom, YoutuBe}

\* faulty variant: the pattern tested on the URL text instead of the hostname
isYouTubeWholeText(str) == Contains(str, YoutubeCom) \/ Contains(str, YoutuBe)

\* /youtube\.com|youtu\.be/.test(u.hostname), false when new URL throws
isYouTube(str) ==
    LET u == ParseUrl(str)
    IN  u.ok /\ (Contains(u.hostname, YoutubeCom) \/ Contains(u.hostname, YoutuBe))

\* faulty variant: any character counts as an identifier character
IsIdCharAny(c) == TRUE

\* [\w-]
IsIdChar(c) == IsAlpha(c) \/ IsDigit(c) \/ c \in {"_", "-"}

IdLen == 11

\* ([\w-]{11}) at position p
IdAt(str, p) ==
    /\ p + IdLen - 1 <= Len(str)
    /\ \A k \in 0..(IdLen - 1) : IsIdChar(str[p + k])

Youtube == <<"y", "o", "u", "t", "u", "b", "e">>
NoCookie == <<"-", "n", "o", "c", "o", "o", "k", "i", "e">>
DotComSlash == <<".", "c", "o", "m", "/">>
EmbedSlash == <<"e", "m", "b", "e", "d", "/">>
YoutuBeSlash == <<"y", "o", "u", "t", "u", ".", "b", "e", "/">>
VEquals == <<"v", "=">>

NoMatch == 0

\* (?:.*v=|embed\/)([\w-]{11}) from position p: the position of the
\* captured group, or NoMatch.  The greedy .* takes the last v= that an
\* identifier follows; embed/ is tried only when no v= matches.
AfterCom(str, p) ==
    LET vs == {k \in p..Len(str) : HasAt(str, k, VEquals) /\ IdAt(str, k + 2)}
    IN  IF vs # {} THEN Greatest(vs) + 2
        ELSE IF HasAt(str, p, EmbedSlash) /\ IdAt(str, p + Len(EmbedSlash))
             THEN p + Len(EmbedSlash)
        ELSE NoMatch

\* youtube(?:-nocookie)?\.com\/ ... from position p
ComBranch(str, p) ==
    IF ~HasAt(str, p, Youtube) THEN NoMatch
    ELSE LET q == p + Len(Youtube)
             withCookie ==
                 IF HasAt(str, q, NoCookie \o DotComSlash)
                 THEN AfterCom(str, q + Len(NoCookie) + Len(DotComSlash))
                 ELSE NoMatch
         IN  IF withCookie # NoMatch THEN withCookie
             ELSE IF HasAt(str, q, DotComSlash)
                  THEN AfterCom(str, q + Len(DotComSlash))
             ELSE NoMatch

\* youtu\.be\/([\w-]{11}) from position p
BeBranch(str, p) ==
    IF HasAt(str, p, YoutuBeSlash) /\ IdAt(str, p + Len(YoutuBeSlash))
    THEN p + Len(YoutuBeSlash)
    ELSE NoMatch

\* the whole pattern tried at position p
MatchAt(str, p) ==
    IF ComBranch(str, p) # NoMatch THEN ComBranch(str, p) ELSE BeBranch(str, p)

Null == <<>>

\* url.match(...) : the leftmost position where the pattern matches; m[1] or null
parseYouTubeId(str) ==
    LET starts == {p \in 1..Len(str) : MatchAt(str, p) # NoMatch}
    IN  IF starts = {} THEN Null
        ELSE LET g == MatchAt(str, Least(starts))
             IN  SubSeq(str, g, g + IdLen - 1)

-----------------------------------------------------------------------------
(* parseYouTubeId on the watch-page, shortened and embed shapes of a link. *)

IdMixed ==
    <<"a", "-", "b", "_", "c", "-", "d", "_", "e", "-", "f">>
IdDigits ==
    <<"1", "2", "3", "4", "5", "6", "7", "8", "9", "0", "1">>

LinkIds == {VideoId, IdMixed, IdDigits}

ParamT ==
    <<"&", "t", "=", "5">>
ParamList ==
    <<"&", "l", "i", "s", "t", "=", "P", "L", "1">>
ParamFeature ==
    <<"&", "f", "e", "a", "t", "u", "r", "e", "=", "y", "o", "u", "t",
      "u", ".", "b", "e">>
ParamDev ==
    <<"&", "d", "e", "v", "=", "1", "2", "3", "4", "5", "6", "7", "8",
      "9", "0", "1">>

ParamV ==
    <<"&", "v", "=", "x", "y">>

QueryParams == {ParamT, ParamList, ParamFeature, ParamDev, ParamV}

\* bound on the number of query parameters after the id
MaxParams == 2

RECURSIVE Tails(_)
Tails(k) ==
    IF k = 0 THEN {<<>>}
    ELSE Tails(k - 1) \cup {t \o q : t \in Tails(k - 1), q \in QueryParams}

WatchPrefix ==
    <<"h", "t", "t", "p", "s", ":", "/", "/", "y", "o", "u", "t", "u",
      "b", "e", ".", "c", "o", "m", "/", "w", "a", "t", "c", "h", "?",
      "v", "=">>
ShortPrefix ==
    <<"h", "t", "t", "p", "s", ":", "/", "/", "y", "o", "u", "t", "u",
      ".", "b", "e", "/">>
EmbedUrlPrefix ==
    <<"h", "t", "t", "p", "s", ":", "/", "/", "y", "o", "u", "t", "u",
      "b", "e", ".", "c", "o", "m", "/", "e", "m", "b", "e", "d", "/">>

Shapes == {"watch", "short", "embed"}

ShapeUrl(shape, lk) ==
    IF shape = "watch" THEN WatchPrefix \o lk.id \o lk.tail
    ELSE IF shape = "short" THEN ShortPrefix \o lk.id
    ELSE EmbedUrlPrefix \o lk.id

LinkInit ==
    /\ link \in [id : LinkIds, tail : Tails(MaxParams)]
    /\ extracted = [sh \in Shapes |-> NotYet]

\* one call parseYouTubeId(url) on a shape not tried yet
Extract(shape) ==
    /\ extracted[shape] = NotYet
    /\ extracted' = [extracted EXCEPT ![shape] = parseYouTubeId(ShapeUrl(shape, link))]
    /\ UNCHANGED <<link, detectVars, pageVars>>

LinkNext == \E shape \in Shapes : Extract(shape)

-----------------------------------------------------------------------------
(* The page: status line, player, results panel, wallet display.           *)

\* status.textContent; n, avg and who carry the interpolated parts
Status(text) == [text |-> text, n |-> 0, avg |-> 0, who |-> <<>>]

PasteFirstPreview == Status("Please paste a video URL first.")
LoadingPreview == Status("Loading preview...")
CouldNotParse ==
    Status("Could not parse YouTube ID. Please paste a full YouTube URL.")
YouTubeLoaded == Status("YouTube preview loaded.")
VideoLoaded == Status("Video loaded - you can play or analyze it.")
VideoFailed ==
    Status("Failed to load the video (CORS or invalid URL). Try a different link or a direct mp4.")
PasteFirstAnalyze == Status("Paste a video URL first.")
Analyzing == Status("Analyzing - reading the video soul...")
ResetDone == Status("Reset to initial state.")
NoMetaMask ==
    Status("MetaMask not detected. Install MetaMask or use a browser extension that injects window.ethereum.")
AccountChanged == Status("Account changed")
Disconnected == Status("MetaMask disconnected")
ConnectFailed == Status("Failed to connect to MetaMask: ")
InitialStatus == Status("")

AnalysisComplete(cnt, mean) ==
    [text |-> "Analysis complete", n |-> cnt, avg |-> mean, who |-> <<>>]

Connected(who) ==
    [text |-> "MetaMask connected - ", n |-> 0, avg |-> 0, who |-> who]

\* a child node of the player
Node(tag, src) == [tag |-> tag, src |-> src]

Placeholder == Node("text", <<>>)

\* line 71: while (player.firstChild) player.removeChild(player.firstChild)
RECURSIVE RemoveChildren(_)
RemoveChildren(children) ==
    IF children = <<>> THEN <<>> ELSE RemoveChildren(Tail(children))

\* faulty variant: the player is left as it is
clearPlayerKeeps(children) == children

\* lines 70-73: remove every child, then set the placeholder text
clearPlayer(children) == RemoveChildren(children) \o <<Placeholder>>

\* player.textContent = "" : every child is removed
EmptyText(children) == <<>>

\* player.appendChild(node)
AppendChild(children, node) == Append(children, node)

EmbedPrefix ==
    <<"h", "t", "t", "p", "s", ":", "/", "/", "w", "w", "w", ".", "y",
      "o", "u", "t", "u", "b", "e", ".", "c", "o", "m", "/", "e", "m",
      "b", "e", "d", "/">>
EmbedSuffix ==
    <<"?", "r", "e", "l", "=", "0", "&", "m", "o", "d", "e", "s", "t",
      "b", "r", "a", "n", "d", "i", "n", "g", "=", "1">>

\* a child node of the results panel
Card(class, text, slot, dots, item) ==
    [class |-> class, text |-> text, slot |-> slot, dots |-> dots, item |-> item]

NoResultsYet == Card("empty", "No results yet", 0, 0, <<>>)
NoPeople == Card("empty", "No people detected.", 0, 0, <<>>)
AnalyzingCard(slot) == Card("result-card", "Analyzing...", slot, 0, <<>>)

\* the decimal digits of a natural number
RECURSIVE DigitsOf(_)
DigitsOf(x) ==
    IF x < 10 THEN <<Digits[x + 1]>>
    ELSE DigitsOf(x \div 10) \o <<Digits[(x % 10) + 1]>>

\* String(x) for an integer
NumberToString(x) == IF x < 0 THEN <<"-">> \o DigitsOf(-x) ELSE DigitsOf(x)

\* a % b, which keeps the sign of the dividend
Rem(a, b) == IF a >= 0 THEN a % b ELSE -((-a) % b)

\* String.prototype.padStart(2, "0")
PadStart2(str) == IF Len(str) < 2 THEN <<"0">> \o str ELSE str

\* lines 198-202
formatTime(secs) ==
    NumberToString(secs \div 60) \o <<":">> \o PadStart2(NumberToString(Rem(secs, 60)))

\* lines 210-223: one card per item
ResultCard(it) ==
    Card("result-card", "", 0, 0,
         <<[person |-> it.person, at |-> formatTime(it.start),
            duration |-> it.duration, confidence |-> it.confidence]>>)

\* faulty variant: only the first item is rendered
showResultsFirst(items) ==
    IF Len(items) = 0 THEN <<NoPeople>> ELSE <<ResultCard(items[1])>>

\* lines 204-224
showResults(items) ==
    IF Len(items) = 0 THEN <<NoPeople>>
    ELSE [k \in 1..Len(items) |-> ResultCard(items[k])]

RECURSIVE SumConfidence(_, _)
SumConfidence(items, k) ==
    IF k = 0 THEN 0 ELSE items[k].confidence + SumConfidence(items, k - 1)

\* Math.round(sum / length || 0): halves round up
AvgConfidence(items) ==
    IF Len(items) = 0 THEN 0
    ELSE (2 * SumConfidence(items, Len(items)) + Len(items)) \div (2 * Len(items))

Account1 ==
    <<"0", "x", "5", "2", "9", "0", "8", "4", "0", "0", "0", "9", "8",
      "5", "2", "7", "8", "8", "6", "E", "0", "F", "7", "0", "3", "0",
      "0", "6", "9", "8", "5", "7", "D", "2", "E", "4", "1", "6", "9",
      "E", "E", "7">>

\* lines 21-24
shortAddress(addr) ==
    IF addr = <<>> THEN <<>>
    ELSE SubSeq(addr, 1, 6) \o <<".", ".", ".">> \o SubSeq(addr, Len(addr) - 3, Len(addr))

NotConnectedText == <<"N", "o", "t", " ", "c", "o", "n", "n", "e", "c", "t", "e", "d">>
NoMetaMaskText == <<"N", "o", " ", "M", "e", "t", "a", "M", "a", "s", "k">>
ConnectedText == <<"C", "o", "n", "n", "e", "c", "t", "e", "d">>
LowerConnectedText == <<"c", "o", "n", "n", "e", "c", "t", "e", "d">>

\* the non-empty trimmed strings the handlers can see, and the pure functions
\* on them, evaluated once per string
PageUrls == {trim(v) : v \in FieldValues \cup SampleUrls} \ {<<>>}

IsYouTubeOf == [u \in PageUrls |-> isYouTube(u)]

YouTubeIdOf == [u \in PageUrls |-> parseYouTubeId(u)]

DetectionsOf == [u \in PageUrls |-> fakeDetect(u)]

\* bounds on what is in flight at once
MaxPending == 1
MaxStale == 1
MaxConnecting == 1

\* the page as loaded, before any event (the markup's placeholders)
PageInit ==
    /\ videoUrlInput = <<>>
    /\ status = InitialStatus
    /\ player = <<Placeholder>>
    /\ results = <<NoResultsYet>>
    /\ walletInfo = NotConnectedText
    /\ analyses = {}
    /\ curLoad = FALSE
    /\ staleLoads = 0
    /\ ethereum \in BOOLEAN
    /\ connecting = 0
    /\ listening = FALSE

\* the user edits the URL field
TypeUrl(v) ==
    /\ videoUrlInput' = v
    /\ UNCHANGED <<status, player, results, walletInfo, analyses, curLoad,
                   staleLoads, ethereum, connecting, listening>>
    /\ UNCHANGED <<detectVars, linkVars>>

\* a video leaving the player keeps loading: its event is still due
StaleAfterClear == IF curLoad THEN staleLoads + 1 ELSE staleLoads

\* lines 96-151, with the field holding v
Preview(v) ==
    IF trim(v) = <<>>
    THEN /\ status' = PasteFirstPreview
         /\ UNCHANGED <<player, curLoad, staleLoads>>
    ELSE /\ StaleAfterClear <= MaxStale
         /\ staleLoads' = StaleAfterClear
         /\ IF IsYouTubeOf[trim(v)]
            THEN IF YouTubeIdOf[trim(v)] = Null
                 THEN /\ status' = CouldNotParse
                      /\ player' = clearPlayer(player)
                      /\ curLoad' = FALSE
                 ELSE /\ status' = YouTubeLoaded
                      /\ player' = AppendChild(EmptyText(clearPlayer(player)),
                             Node("iframe",
                                  EmbedPrefix \o YouTubeIdOf[trim(v)] \o EmbedSuffix))
                      /\ curLoad' = FALSE
            ELSE /\ status' = LoadingPreview
                 /\ player' = AppendChild(EmptyText(clearPlayer(player)),
                                          Node("video", trim(v)))
                 /\ curLoad' = TRUE

PreviewClick ==
    /\ Preview(videoUrlInput)
    /\ UNCHANGED <<videoUrlInput, results, walletInfo, analyses, ethereum,
                   connecting, listening>>
    /\ UNCHANGED <<detectVars, linkVars>>

\* lines 154-160
SampleClick(v) ==
    /\ videoUrlInput' = v
    /\ Preview(v)
    /\ UNCHANGED <<results, walletInfo, analyses, ethereum, connecting, listening>>
    /\ UNCHANGED <<detectVars, linkVars>>

\* lines 135-137: onloadedmetadata of the video in the player
CurrentVideoLoaded ==
    /\ curLoad
    /\ curLoad' = FALSE
    /\ status' = VideoLoaded
    /\ UNCHANGED <<videoUrlInput, player, results, walletInfo, analyses,
                   staleLoads, ethereum, connecting, listening>>
    /\ UNCHANGED <<detectVars, linkVars>>

\* lines 138-142: onerror of the video in the player
CurrentVideoError ==
    /\ curLoad
    /\ curLoad' = FALSE
    /\ status' = VideoFailed
    /\ UNCHANGED <<videoUrlInput, player, results, walletInfo, analyses,
                   staleLoads, ethereum, connecting, listening>>
    /\ UNCHANGED <<detectVars, linkVars>>

\* the same handlers on a video that is no longer in the player
StaleVideoLoaded ==
    /\ staleLoads > 0
    /\ staleLoads' = staleLoads - 1
    /\ status' = VideoLoaded
    /\ UNCHANGED <<videoUrlInput, player, results, walletInfo, analyses,
                   curLoad, ethereum, connecting, listening>>
    /\ UNCHANGED <<detectVars, linkVars>>

StaleVideoError ==
    /\ staleLoads > 0
    /\ staleLoads' = staleLoads - 1
    /\ status' = VideoFailed
    /\ UNCHANGED <<videoUrlInput, player, results, walletInfo, analyses,
                   curLoad, ethereum, connecting, listening>>
    /\ UNCHANGED <<detectVars, linkVars>>

UsedSlots == {a.slot : a \in analyses}

\* lines 226-243: the handler up to its await, with at most limit handlers
\* suspended at once
AnalyzeClickWithin(limit) ==
    /\ UNCHANGED <<detectVars, linkVars>>
    /\ IF trim(videoUrlInput) = <<>>
       THEN /\ status' = PasteFirstAnalyze
            /\ UNCHANGED <<videoUrlInput, player, results, walletInfo, analyses,
                           curLoad, staleLoads, ethereum, connecting, listening>>
       ELSE /\ Cardinality(analyses) < limit
            /\ LET slot == Least((1..limit) \ UsedSlots)
               IN  /\ results' = <<AnalyzingCard(slot)>>
                   /\ analyses' = analyses \cup {[slot |-> slot, url |-> trim(videoUrlInput)]}
            /\ status' = Analyzing
            /\ UNCHANGED <<videoUrlInput, player, walletInfo, curLoad, staleLoads,
                           ethereum, connecting, listening>>

AnalyzeClick == AnalyzeClickWithin(MaxPending)

\* lines 238-240: the interval of a suspended handler; dotsEl is the span of
\* the card that handler created, which may have left the panel
IntervalTick(a) ==
    /\ a \in analyses
    /\ results = <<[AnalyzingCard(a.slot) EXCEPT !.dots = results[1].dots]>>
    /\ results' = <<[results[1] EXCEPT !.dots = (@ + 1) % 4]>>
    /\ UNCHANGED <<videoUrlInput, status, player, walletInfo, analyses, curLoad,
                   staleLoads, ethereum, connecting, listening>>
    /\ UNCHANGED <<detectVars, linkVars>>

\* lines 244-262: the delay of handler a has elapsed
AnalysisDone(a) ==
    /\ a \in analyses
    /\ analyses' = analyses \ {a}
    /\ status' = AnalysisComplete(Len(DetectionsOf[a.url]),
                                 AvgConfidence(DetectionsOf[a.url]))
    /\ results' = showResults(DetectionsOf[a.url])
    /\ UNCHANGED <<videoUrlInput, player, walletInfo, curLoad, staleLoads,
                   ethereum, connecting, listening>>
    /\ UNCHANGED <<detectVars, linkVars>>

\* faulty variant: the reset also drops the suspended analyze handlers
ResetClickCancels ==
    /\ StaleAfterClear <= MaxStale
    /\ videoUrlInput' = <<>>
    /\ player' = clearPlayer(player)
    /\ staleLoads' = StaleAfterClear
    /\ curLoad' = FALSE
    /\ results' = <<NoResultsYet>>
    /\ status' = ResetDone
    /\ walletInfo' = NotConnectedText
    /\ analyses' = {}
    /\ UNCHANGED <<ethereum, connecting, listening>>
    /\ UNCHANGED <<detectVars, linkVars>>

\* lines 266-272
ResetClick ==
    /\ StaleAfterClear <= MaxStale
    /\ videoUrlInput' = <<>>
    /\ player' = clearPlayer(player)
    /\ staleLoads' = StaleAfterClear
    /\ curLoad' = FALSE
    /\ results' = <<NoResultsYet>>
    /\ status' = ResetDone
    /\ walletInfo' = NotConnectedText
    /\ UNCHANGED <<analyses, ethereum, connecting, listening>>
    /\ UNCHANGED <<detectVars, linkVars>>

\* lines 26-39: connectWallet up to its await
ConnectClick ==
    /\ UNCHANGED <<detectVars, linkVars>>
    /\ IF ~ethereum
       THEN /\ status' = NoMetaMask
            /\ walletInfo' = NoMetaMaskText
            /\ UNCHANGED <<videoUrlInput, player, results, analyses, curLoad,
                           staleLoads, ethereum, connecting, listening>>
       ELSE /\ connecting < MaxConnecting
            /\ connecting' = connecting + 1
            /\ UNCHANGED <<videoUrlInput, status, player, results, walletInfo,
                           analyses, curLoad, staleLoads, ethereum, listening>>

\* lines 40-56: the request resolved with accounts accs
ConnectResolved(accs) ==
    /\ connecting > 0
    /\ connecting' = connecting - 1
    /\ walletInfo' = IF accs # <<>> THEN shortAddress(accs[1]) ELSE ConnectedText
    /\ status' = Connected(IF accs # <<>> THEN shortAddress(accs[1])
                           ELSE LowerConnectedText)
    /\ listening' = TRUE
    /\ UNCHANGED <<videoUrlInput, player, results, analyses, curLoad,
                   staleLoads, ethereum>>
    /\ UNCHANGED <<detectVars, linkVars>>

\* lines 57-64: the request was rejected
ConnectRejected ==
    /\ connecting > 0
    /\ connecting' = connecting - 1
    /\ status' = ConnectFailed
    /\ walletInfo' = NotConnectedText
    /\ UNCHANGED <<videoUrlInput, player, results, analyses, curLoad,
                   staleLoads, ethereum, listening>>
    /\ UNCHANGED <<detectVars, linkVars>>

\* lines 48-56: the accountsChanged listener
AccountsChanged(accs) ==
    /\ listening
    /\ IF accs # <<>>
       THEN walletInfo' = shortAddress(accs[1]) /\ status' = AccountChanged
       ELSE walletInfo' = NotConnectedText /\ status' = Disconnected
    /\ UNCHANGED <<videoUrlInput, player, results, analyses, curLoad,
                   staleLoads, ethereum, connecting, listening>>
    /\ UNCHANGED <<detectVars, linkVars>>

AccountLists == {<<>>, <<Account1>>}

PageNext ==
    \/ \E v \in FieldValues : TypeUrl(v)
    \/ PreviewClick
    \/ \E v \in SampleUrls : SampleClick(v)
    \/ CurrentVideoLoaded
    \/ CurrentVideoError
    \/ StaleVideoLoaded
    \/ StaleVideoError
    \/ AnalyzeClick
    \/ \E a \in analyses : IntervalTick(a)
    \/ \E a \in analyses : AnalysisDone(a)
    \/ ResetClick
    \/ ConnectClick
    \/ \E accs \in AccountLists : ConnectResolved(accs)
    \/ ConnectRejected
    \/ \E accs \in AccountLists : AccountsChanged(accs)

Init == DetectInit /\ PageInit

Next == PageNext

Spec == Init /\ [][Next]_vars

\* fakeDetect alone, on a page that stays as loaded
InitDetect == Init /\ ethereum = FALSE

SpecDetect == InitDetect /\ [][DetectNext]_vars

\* parseYouTubeId alone
InitLink ==
    /\ url = <<>> /\ pc = "idle" /\ seed = Zero /\ s = Zero /\ n = 0
    /\ out = <<>> /\ fields = <<>> /\ drawn = 0 /\ memo = <<>>
    /\ LinkInit
    /\ PageInit
    /\ ethereum = FALSE

SpecLink == InitLink /\ [][LinkNext]_vars

\* The analysis flow with overlapping requests: the field is edited, analyze
\* and reset are clicked, and the timers of the suspended handlers fire.
\* bound on the handlers suspended at once
MaxOverlap == 2

Requests == [slot : 1..MaxOverlap, url : PageUrls]

AnalyzeNext ==
    \/ \E v \in FieldValues : TypeUrl(v)
    \/ AnalyzeClickWithin(MaxOverlap)
    \/ \E a \in analyses : IntervalTick(a)
    \/ \E a \in analyses : AnalysisDone(a)
    \/ ResetClick

\* a timer set with setTimeout fires: the continuation of every suspended
\* handler is eventually run
TimersFire == \A a \in Requests : WF_vars(AnalysisDone(a))

SpecAnalyze == InitDetect /\ [][AnalyzeNext]_vars /\ TimersFire

\* the stepwise run returns what fakeDetect computes as a whole
StepwiseAgrees == pc = "done" => out = fakeDetect(url)

-----------------------------------------------------------------------------
(* Claims.                                                                 *)

Candidates == {people[k] : k \in 1..Len(people)}

\* C1: every record fakeDetect returns has 0 <= start < 90,
\* 1 <= duration <= 6 and 60 <= confidence <= 99, whatever the seed.
C1_RecordRanges ==
    pc = "done" =>
        \A k \in 1..Len(out) :
            /\ out[k].start \in 0..89
            /\ out[k].duration \in 1..6
            /\ out[k].confidence \in 60..99

\* C2: after every rand() call the generator state is in 0..2^32-1, so the
\* value returned (state / 2^32) is in [0, 1).
C2_ValuesInUnitInterval == drawn >= 1 => ~IsNegative(s)

\* C3: the person of every record built is one of the 8 candidates.
C3_LabelsAmongCandidates ==
    /\ \A k \in 1..Len(out) : out[k].person \in Candidates
    /\ fields # <<>> => fields[1] \in Candidates

\* C4: n is in 1..4 once drawn, and fakeDetect returns 1 to 4 records.
C4_CountInRange ==
    /\ pc \notin {"idle", "count"} => n \in 1..4
    /\ pc = "done" => Len(out) \in 1..4

\* C4 witness: calls that returned 4 records and calls that returned 1
C4_Witness == pc = "done" /\ Len(out) = 4 /\ memo # <<>> /\ Len(memo[1].ret) = 1

\* C5: a call with the string of the first completed call returns what that
\* first call returned, also after calls with other strings in between.
C5_Deterministic ==
    (pc = "done" /\ memo # <<>> /\ memo[1].arg = url) => out = memo[1].ret

\* C5 witness: the first string called again after a call with another string
C5_Witness ==
    /\ pc = "done"
    /\ memo # <<>>
    /\ memo[1].arg = url
    /\ memo[1].again
    /\ Len(out) > 1

\* the trimmed string the preview handler works on in a preview or sample step
Previewed == trim(videoUrlInput')

PreviewStep == PreviewClick \/ \E v \in SampleUrls : SampleClick(v)

\* the string parses as a URL whose hostname contains youtube.com or youtu.be
HostMatches(str) ==
    /\ ParseUrl(str).ok
    /\ Contains(ParseUrl(str).hostname, YoutubeCom)
           \/ Contains(ParseUrl(str).hostname, YoutuBe)

HostMatchesOf == [u \in PageUrls |-> HostMatches(u)]

\* C6: a preview of a non-empty URL whose host matches the YouTube pattern
\* and that yields no identifier ends with the could-not-parse status and a
\* player holding neither an iframe nor a video.
C6_UnrecognizedIdIsError ==
    [][(/\ PreviewStep
        /\ Previewed # <<>>
        /\ HostMatchesOf[Previewed]
        /\ YouTubeIdOf[Previewed] = Null)
       => (/\ status' = CouldNotParse
           /\ \A k \in 1..Len(player') : player'[k].tag \notin {"iframe", "video"})]_vars

\* C6 witness: the playlist link was previewed while a video was in the player
C6_Witness ==
    /\ status = CouldNotParse
    /\ trim(videoUrlInput) = UrlNoId
    /\ player = <<Placeholder>>
    /\ staleLoads > 0

\* C7: once a reset has put the 'No results yet' placeholder in the results
\* panel, the panel changes only by an analyze click.
C7_ResetDiscardsResults ==
    [][(results = <<NoResultsYet>> /\ results' # results) => AnalyzeClick]_vars

\* C8: for every id and every sequence of query parameters after it, the
\* watch-page, shortened and embed shapes all yield the id.
C8_AllShapesGiveId ==
    \A sh \in Shapes : extracted[sh] # NotYet => extracted[sh] = link.id

\* the field holds nothing but white space
IsBlank(str) == \A k \in 1..Len(str) : str[k] = " "

\* C9: a preview or analyze click on an empty trimmed URL field changes the
\* status text and nothing else.
C9_EmptyUrlOnlyStatus ==
    [][((PreviewClick \/ AnalyzeClick) /\ IsBlank(videoUrlInput))
       => (/\ status' \in {PasteFirstPreview, PasteFirstAnalyze}
           /\ UNCHANGED <<videoUrlInput, player, results, walletInfo, analyses,
                          curLoad, staleLoads, ethereum, connecting, listening>>)]_vars

\* C9 witness: analyze clicked on a blank field while a video, an analysis
\* and a wallet address were on the page
C9_Witness ==
    /\ status = PasteFirstAnalyze
    /\ videoUrlInput = <<" ">>
    /\ analyses # {}
    /\ Len(player) = 1 /\ player[1].tag = "video"
    /\ walletInfo = shortAddress(Account1)

\* C10: isYouTube is a boolean for every string, and a preview of a
\* non-empty string that fails URL parsing or whose host does not match puts
\* a video element with that string as source in the player.
C10_DirectMediaDefault ==
    [][(PreviewStep /\ Previewed # <<>> /\ ~HostMatchesOf[Previewed])
       => (/\ IsYouTubeOf[Previewed] = FALSE
           /\ player' = <<Node("video", Previewed)>>
           /\ status' = LoadingPreview)]_vars

\* C10 witness: the string that is no URL is in the player as a video source
C10_Witness == player = <<Node("video", NotAUrl)>> /\ ~ParseUrl(NotAUrl).ok

\* the identifier alphabet, character by character
IdAlphabet ==
    {"a", "b", "c", "d", "e", "f", "g", "h", "i", "j", "k", "l", "m",
     "n", "o", "p", "q", "r", "s", "t", "u", "v", "w", "x", "y", "z",
     "A", "B", "C", "D", "E", "F", "G", "H", "I", "J", "K", "L", "M",
     "N", "O", "P", "Q", "R", "S", "T", "U", "V", "W", "X", "Y", "Z",
     "0", "1", "2", "3", "4",
     "5", "6", "7", "8", "9",
     "-", "_"}

\* C11: an identifier returned by parseYouTubeId is exactly 11 characters
\* long and made of letters, digits, '-' and '_' only.
C11_IdIsElevenIdChars ==
    \A sh \in Shapes :
        (extracted[sh] # NotYet /\ extracted[sh] # Null) =>
            /\ Len(extracted[sh]) = 11
            /\ \A k \in 1..Len(extracted[sh]) : extracted[sh][k] \in IdAlphabet

\* C11 witness: the watch-page link carries a second v= whose value and the
\* next parameter fill 11 characters, and an identifier was returned
C11_Witness ==
    /\ link.tail = ParamV \o ParamList
    /\ extracted["watch"] = link.id
    /\ extracted["short"] = link.id

\* C12: a video's onloadedmetadata / onerror callback changes the status
\* only while that video is the preview in the player and the status is
\* still the one its own preview action set; a callback of a video that has
\* left the player changes nothing.
C12_LoadOutcomeStaysLocal ==
    [][/\ (CurrentVideoLoaded \/ CurrentVideoError) => status = LoadingPreview
       /\ (StaleVideoLoaded \/ StaleVideoError) => status' = status]_vars

\* a step of the wallet affordance: a connect attempt, its outcome, or an
\* accountsChanged notification
WalletStep ==
    \/ ConnectClick
    \/ \E accs \in AccountLists : ConnectResolved(accs)
    \/ ConnectRejected
    \/ \E accs \in AccountLists : AccountsChanged(accs)

\* C13: the wallet display changes only in a step of the wallet affordance;
\* no preview, sample, analyze or reset step changes it.
C13_WalletDecoupled ==
    [][walletInfo' # walletInfo => WalletStep]_vars

\* The fold written on residues modulo 2^32 = 4096 * 2^20, a residue being
\* <<q, r>> = q * 2^20 + r: one step is u -> (u * 31 + code) mod 2^32.
RefStep(u, code) ==
    <<(u[1] * 31 + ((u[2] * 31 + code) \div 1048576)) % 4096,
      (u[2] * 31 + code) % 1048576>>

\* from index i on; the residue is tested at every iteration as the loop
\* condition is
RECURSIVE RefFoldFrom(_, _, _)
RefFoldFrom(u, str, i) ==
    IF i > Len(str) \/ u[1] >= 4096 THEN u
    ELSE RefFoldFrom(RefStep(u, charCodeAt(str[i])), str, i + 1)

RefSeedOf == [str \in DetectInputs |-> RefFoldFrom(<<0, 0>>, str, 1)]

\* the magnitude of a number as <<q, r>>
MagnitudeOf(w) == <<w.hi \div 16, (w.hi % 16) * 65536 + w.lo>>

\* w is in -2^31..2^31-1 and congruent to the residue u modulo 2^32
IsWrap32Of(w, u) ==
    IF ~w.neg
    THEN w.hi < 32768 /\ MagnitudeOf(w) = u
    ELSE /\ ~IsZero(w)
         /\ w.hi < 32768 \/ (w.hi = 32768 /\ w.lo = 0)
         /\ \/ MagnitudeOf(w)[2] + u[2] = 1048576 /\ MagnitudeOf(w)[1] + u[1] = 4095
            \/ MagnitudeOf(w)[2] = 0 /\ u[2] = 0 /\ MagnitudeOf(w)[1] + u[1] = 4096

\* C14: the seed of every call is the left-to-right fold
\* seed = wrap32(seed * 31 + charCode) from 0, a signed 32-bit integer; the
\* empty string gives 0.
C14_SeedIsWrappedFold ==
    pc # "idle" =>
        /\ IsWrap32Of(seed, RefSeedOf[url])
        /\ url = <<>> => seed = Zero

\* C14 witness: the first call was on the empty string, and a later call on
\* a 25-character string wrapped to a negative seed
C14_Witness ==
    /\ pc = "done"
    /\ memo # <<>> /\ memo[1].arg = <<>>
    /\ url = UrlMp4
    /\ IsNegative(seed)

DecimalDigits == {"0", "1", "2", "3", "4", "5", "6", "7", "8", "9"}

\* the text ends with a colon and exactly two digits that read 00..59
HasTwoDigitSeconds(str) ==
    /\ Len(str) >= 4
    /\ str[Len(str) - 2] = ":"
    /\ str[Len(str) - 1] \in {"0", "1", "2", "3", "4", "5"}
    /\ str[Len(str)] \in DecimalDigits

\* C15: every start time shown in the results panel ends with a colon and a
\* two-digit seconds part in 00..59.
C15_StartShownAsMinutesSeconds ==
    \A k \in 1..Len(results) :
        results[k].item # <<>> => HasTwoDigitSeconds(results[k].item[1].at)

\* the generator state after k calls of the generator started at state w
RECURSIVE StateAfter(_, _)
StateAfter(w, k) ==
    IF k = 0 \/ w.hi < 0 THEN w ELSE StateAfter(Lcg(w), k - 1)

\* the k-th value of the stream of the current call
Value(k) == StateAfter(seededRandom(seed), k)

\* C17: one stream threads through a call: after d draws the generator
\* state is the d-th state of the stream started from the seed; the first
\* value gives the count; record i (from 1) is made of values 4i-2 .. 4i+1
\* in the order person, start, duration, confidence; a call that returns n
\* records has drawn exactly 1 + 4n values, and out is in generation order.
C17_SingleStream ==
    /\ pc # "idle" => s = Value(drawn)
    /\ pc \notin {"idle", "count"} => n = CountOf(Value(1))
    /\ \A i \in 1..Len(out) :
           out[i] = [person |-> PersonOf(Value(4 * i - 2)),
                     start |-> StartOf(Value(4 * i - 1)),
                     duration |-> DurationOf(Value(4 * i)),
                     confidence |-> ConfidenceOf(Value(4 * i + 1))]
    /\ pc = "person" => drawn = 1 + 4 * Len(out)
    /\ pc = "done" => drawn = 1 + 4 * Len(out) /\ Len(out) = n

\* C17 witness: a call that returned 4 records after 17 draws
C17_Witness == pc = "done" /\ Len(out) = 4 /\ drawn = 17 /\ url = UrlShort

PreviewElements(children) ==
    {k \in 1..Len(children) : children[k].tag \in {"iframe", "video"}}

\* C19: the player never holds more than one preview element (iframe or
\* video); while the status is that of a reset, of an unrecognized-id
\* preview or of the page as loaded, it holds none and shows the placeholder.
C19_AtMostOnePreview ==
    /\ Cardinality(PreviewElements(player)) <= 1
    /\ PreviewElements(player) = {} => player = <<Placeholder>>
    /\ status \in {ResetDone, CouldNotParse, InitialStatus} => player = <<Placeholder>>

\* C19 witness: a reset pressed while a video was in the player and an
\* earlier video had been replaced
C19_Witness ==
    /\ status = ResetDone
    /\ player = <<Placeholder>>
    /\ staleLoads > 0

\* what the completion of a request for u writes
CompletionOf(u) ==
    [status |-> AnalysisComplete(Len(DetectionsOf[u]), AvgConfidence(DetectionsOf[u])),
     results |-> showResults(DetectionsOf[u])]

\* C16: no analysis is cancellable.  A suspended request leaves the pending
\* set only by its own completion, which renders fakeDetect of the URL
\* captured at the click and sets the completion status, whatever was
\* clicked or typed in between; no step completes two requests at once; and
\* every suspended request is eventually completed.
C16_NoAnalysisCancellable ==
    /\ [][\A a \in analyses :
             a \notin analyses' =>
                 /\ analyses' = analyses \ {a}
                 /\ status' = CompletionOf(a.url).status
                 /\ results' = CompletionOf(a.url).results]_vars
    /\ \A a \in Requests : (a \in analyses) ~> (a \notin analyses)

\* C16 witness: two requests overlapped; the one in the second slot has
\* been rendered after the field was emptied, and the one made before it is
\* still waiting
C16_Witness ==
    /\ analyses = {[slot |-> 1, url |-> UrlShort]}
    /\ videoUrlInput = <<>>
    /\ status = CompletionOf(NotAUrl).status
    /\ results = CompletionOf(NotAUrl).results

\* the row the results panel shows for one detection
RowOf(d) ==
    Card("result-card", "", 0, 0,
         <<[person |-> d.person, at |-> formatTime(d.start),
            duration |-> d.duration, confidence |-> d.confidence]>>)

RECURSIVE ConfidenceSum(_, _)
ConfidenceSum(ds, k) ==
    IF k = 0 THEN 0 ELSE ds[k].confidence + ConfidenceSum(ds, k - 1)

\* a is the mean confidence of ds rounded to the nearest integer, halves up
IsRoundedMean(a, ds) ==
    /\ 2 * Len(ds) * a <= 2 * ConfidenceSum(ds, Len(ds)) + Len(ds)
    /\ 2 * ConfidenceSum(ds, Len(ds)) + Len(ds) < 2 * Len(ds) * a + 2 * Len(ds)

\* C18: while the status is an 'Analysis complete - n people (avg a%)'
\* message, the results panel shows exactly n rows, those of the detections
\* of one URL in generation order, and a is their rounded mean confidence.
C18_StatusMatchesResults ==
    status.text = "Analysis complete" =>
        \E u \in PageUrls :
            /\ status.n = Len(DetectionsOf[u])
            /\ Len(results) = status.n
            /\ \A k \in 1..Len(results) : results[k] = RowOf(DetectionsOf[u][k])
            /\ IsRoundedMean(status.avg, DetectionsOf[u])

\* C18 witness: a set of 4 was rendered while another request was waiting
C18_Witness ==
    /\ status.text = "Analysis complete"
    /\ status.n = 4
    /\ Len(results) = 4
    /\ Cardinality(analyses) = 1

====
